---- MODULE Spec2Model ----
(***************************************************************************)
(* Model of src/src/Pie.js: the Pie component of react-native-pie.         *)
(*                                                                         *)
(* JavaScript numbers are modelled as tagged values: a finite number       *)
(* (kept in fixed point, Unit steps per 1.0), NaN, +Infinity, -Infinity,   *)
(* and the non-numbers undefined and a non-numeric string.  Arithmetic     *)
(* and comparisons follow the IEEE/ECMAScript rules for the non-finite     *)
(* values; finite arithmetic is exact in the fixed-point grid.             *)
(*                                                                         *)
(* A render pass of Pie is a sequence of steps: the call of Pie itself     *)
(* (normalization of the props, a new paintedSections array), then its     *)
(* children in document order: Background, Sections, RoundDividers and     *)
(* CleanUpCircles.  The sections prop is always an array; the centre text  *)
(* reads nothing but centerValue and centerLabel and is left out.          *)
(***************************************************************************)
EXTENDS Integers, Sequences, FiniteSets, TLC

VARIABLES pc, props, dimensions, heap, bgOut, sectionsOut, dividersOut,
          cleanupOut, arcIn, arcOut

vars == <<pc, props, dimensions, heap, bgOut, sectionsOut, dividersOut,
          cleanupOut, arcIn, arcOut>>

\* ------------------------------------------------------------------------
\* JavaScript values
\* ------------------------------------------------------------------------

\* Fixed-point resolution of finite numbers: 1.0 is Unit steps (0.001 each).
Unit == 10 * 100

Num(v) == [k |-> "num", v |-> v]
NaN == [k |-> "nan", v |-> 0]
PosInf == [k |-> "inf", v |-> 0]
NegInf == [k |-> "ninf", v |-> 0]
Undefined == [k |-> "undef", v |-> 0]
\* a non-numeric string such as "abc"
Str == [k |-> "str", v |-> 0]

\* a whole number n, and n thousandths
Whole(n) == Num(n * Unit)
Milli(n) == Num(n)

\* ToNumber: undefined and a non-numeric string convert to NaN
ToNumber(x) == IF x.k \in {"undef", "str"} THEN NaN ELSE x

\* typeof x === 'number'
IsNumberType(x) == x.k \in {"num", "nan", "inf", "ninf"}

\* the global isNaN(x)
isNaN(x) == ToNumber(x).k = "nan"

\* Number.isNaN(x): no conversion
NumberIsNaN(x) == x.k = "nan"

\* truthiness of a value: 0, NaN and undefined are falsy
Truthy(x) == \/ x.k \in {"inf", "ninf", "str"}
             \/ x.k = "num" /\ x.v # 0

\* x || d
OrElse(x, d) == IF Truthy(x) THEN x ELSE d

\* a < b (false when either side is NaN)
LtV(a, b) ==
  LET x == ToNumber(a)
      y == ToNumber(b)
  IN /\ x.k # "nan"
     /\ y.k # "nan"
     /\ CASE x.k = "ninf" -> y.k # "ninf"
          [] x.k = "inf" -> FALSE
          [] OTHER -> y.k = "inf" \/ (y.k = "num" /\ x.v < y.v)

\* a == b on numbers (false when either side is NaN)
EqV(a, b) ==
  LET x == ToNumber(a)
      y == ToNumber(b)
  IN x.k # "nan" /\ y.k # "nan" /\ x = y

LeV(a, b) == LtV(a, b) \/ EqV(a, b)
GtV(a, b) == LtV(b, a)
GeV(a, b) == LeV(b, a)

\* Math.max(a, b), Math.min(a, b): NaN when either argument converts to NaN
MathMax(a, b) ==
  IF isNaN(a) \/ isNaN(b) THEN NaN
  ELSE IF LtV(a, b) THEN ToNumber(b) ELSE ToNumber(a)

MathMin(a, b) ==
  IF isNaN(a) \/ isNaN(b) THEN NaN
  ELSE IF LtV(b, a) THEN ToNumber(b) ELSE ToNumber(a)

NegV(a) ==
  LET x == ToNumber(a)
  IN CASE x.k = "inf" -> NegInf
       [] x.k = "ninf" -> PosInf
       [] x.k = "num" -> Num(-x.v)
       [] OTHER -> NaN

\* a + b: Infinity + -Infinity is NaN
AddV(a, b) ==
  LET x == ToNumber(a)
      y == ToNumber(b)
  IN CASE x.k = "nan" \/ y.k = "nan" -> NaN
       [] x.k = "num" /\ y.k = "num" -> Num(x.v + y.v)
       [] x.k = "num" -> y
       [] y.k = "num" -> x
       [] x.k = y.k -> x
       [] OTHER -> NaN

SubV(a, b) == AddV(a, NegV(b))

\* a * n and a / n for a positive integer constant n
TimesV(a, n) ==
  LET x == ToNumber(a)
  IN IF x.k = "num" THEN Num(x.v * n) ELSE x

OverV(a, n) ==
  LET x == ToNumber(a)
  IN IF x.k = "num" THEN Num(x.v \div n) ELSE x

\* ------------------------------------------------------------------------
\* Geometry
\* ------------------------------------------------------------------------

\* the point { x: 0, y: 0 }
Origin == [x |-> "0", y |-> "0"]

\* The point at `angle` on the circle of radius r about (cx, cy).  Math.cos
\* and Math.sin of an infinite angle are NaN, so both coordinates are then
\* replaced by 0.  For a finite angle the sines and cosines are not
\* evaluated: each coordinate is kept as the expression it comes from
\* (cx + r * cos a, cy + r * sin a), together with its NaN-to-0 replacement,
\* which can only apply when cx, cy or r is infinite.
polarToCartesian(cx, cy, r, angle) ==
  IF isNaN(cx) \/ isNaN(cy) \/ isNaN(r) \/ isNaN(angle) THEN Origin
  ELSE IF angle.k \in {"inf", "ninf"} THEN Origin
  ELSE [x |-> <<"x", cx, r, angle>>, y |-> <<"y", cy, r, angle>>]

\* 'M 0 0'
PlaceholderPath == [kind |-> "M 0 0"]

FullCircleThreshold == Milli(359900)

describeArc(cx, cy, r, startAngle, arcAngle) ==
  IF isNaN(cx) \/ isNaN(cy) \/ isNaN(r) \/ isNaN(startAngle) \/ isNaN(arcAngle)
  THEN PlaceholderPath
  ELSE IF LeV(arcAngle, Whole(0)) THEN PlaceholderPath
  ELSE IF GeV(arcAngle, FullCircleThreshold)
  THEN LET topPoint == polarToCartesian(cx, cy, r, Whole(0))
           bottomPoint == polarToCartesian(cx, cy, r, Whole(180))
       IN [kind |-> "M A A", r |-> r, m |-> topPoint,
           a1 |-> bottomPoint, a2 |-> topPoint]
  ELSE LET endAngle == AddV(startAngle, arcAngle)
           start == polarToCartesian(cx, cy, r, endAngle)
           end == polarToCartesian(cx, cy, r, startAngle)
           largeArcFlag == IF GtV(arcAngle, Whole(180)) THEN 1 ELSE 0
       IN [kind |-> "M A", r |-> r, m |-> start,
           largeArcFlag |-> largeArcFlag, a1 |-> end]

\* ------------------------------------------------------------------------
\* Components
\* ------------------------------------------------------------------------

\* a component that returned null
Null == [kind |-> "null"]

BezianFactor == 5

\* colour strings: "" stands for a missing (falsy) colour
ArcShape(dims, color, strokeCap, startAngle, arcAngle, isBezian) ==
  IF ~Truthy(dims.radius) \/ LeV(dims.radius, Whole(0)) THEN Null
  ELSE LET r == SubV(dims.radius, OverV(dims.width, 2))
       IN IF LeV(r, Whole(0)) THEN Null
          ELSE LET pathData == describeArc(dims.radius, dims.radius, r,
                                           OrElse(startAngle, Whole(0)),
                                           OrElse(arcAngle, Whole(0)))
                   strokeWidth == IF isBezian
                                  THEN TimesV(OrElse(arcAngle, Whole(0)), BezianFactor)
                                  ELSE dims.width
               IN [kind |-> "Path", d |-> pathData,
                   stroke |-> IF color = "" THEN "#000" ELSE color,
                   strokeWidth |-> MathMax(strokeWidth, Whole(0)),
                   strokeLinecap |-> IF strokeCap = "" THEN "butt" ELSE strokeCap]

FullCircle == 360

Background(dims, color) ==
  ArcShape(dims, color, "", Whole(0), Whole(FullCircle), FALSE)

\* (x / 100) * 360
PercentToDegrees(x) ==
  LET y == ToNumber(x)
  IN IF y.k = "num" THEN Num((y.v * FullCircle) \div 100) ELSE y

\* getArcAngle without its cap at 360 degrees
getArcAngleUncapped(percentage) ==
  IF isNaN(percentage) \/ LtV(percentage, Whole(0)) THEN Whole(0)
  ELSE PercentToDegrees(percentage)

getArcAngle(percentage) ==
  IF isNaN(percentage) \/ LtV(percentage, Whole(0)) THEN Whole(0)
  ELSE MathMin(PercentToDegrees(percentage), Whole(FullCircle))

\* shouldShowDivider without its test for more than one section
shouldShowDividerAnyCount(sections, dividerSize) ==
  Len(sections) > 0 /\ ~NumberIsNaN(dividerSize) /\ GtV(dividerSize, Whole(0))

shouldShowDivider(sections, dividerSize) ==
  Len(sections) > 1 /\ ~NumberIsNaN(dividerSize) /\ GtV(dividerSize, Whole(0))

\* the filter of Sections: a section is a record [nul, percentage, color],
\* nul for a null entry
IsValidSection(section) ==
  /\ ~section.nul
  /\ IsNumberType(section.percentage)
  /\ ~isNaN(section.percentage)
  /\ GtV(section.percentage, Whole(0))
  /\ section.color # ""

ValidSections(sections) == SelectSeq(sections, IsValidSection)

\* startValue when the map callback is entered for the i-th valid section
RECURSIVE StartValue(_, _)
StartValue(validSections, i) ==
  IF i <= 1 THEN Whole(0)
  ELSE AddV(StartValue(validSections, i - 1), validSections[i - 1].percentage)

\* arcs narrower than this are skipped
MinVisibleArc == Milli(100)

\* one call of the map callback of Sections: what it returns, and what it
\* pushes onto paintedSections (at most one entry).  `by` is the render that
\* pushed the entry; no code reads it.
SectionArc(validSections, i, dims, strokeCapForLargeBands) ==
  LET section == validSections[i]
      dividerSize == dims.dividerSize
      showDividers == shouldShowDivider(validSections, dividerSize)
      startAngle == PercentToDegrees(StartValue(validSections, i))
      arcAngle == getArcAngle(section.percentage)
      propStart == IF showDividers
                   THEN AddV(startAngle, OrElse(dividerSize, Whole(0)))
                   ELSE startAngle
      propArc == IF showDividers
                 THEN MathMax(SubV(arcAngle, OrElse(dividerSize, Whole(0))), MinVisibleArc)
                 ELSE arcAngle
  IN IF LtV(arcAngle, MinVisibleArc) THEN Null
     ELSE [kind |-> "ArcShape", key |-> i - 1, color |-> section.color,
           startAngle |-> propStart, arcAngle |-> propArc,
           strokeCap |-> strokeCapForLargeBands,
           rendered |-> ArcShape(dims, section.color, strokeCapForLargeBands,
                                 propStart, propArc, FALSE)]

\* SectionPush without its test of shouldShowRoundDividers
SectionPushAnyCap(validSections, i, shouldShowRoundDividers, by) ==
  LET section == validSections[i]
      startAngle == PercentToDegrees(StartValue(validSections, i))
      arcAngle == getArcAngle(section.percentage)
  IN IF LtV(arcAngle, MinVisibleArc) THEN <<>>
     ELSE << [percentage |-> section.percentage, color |-> section.color,
              startAngle |-> startAngle, arcAngle |-> arcAngle, by |-> by] >>

SectionPush(validSections, i, shouldShowRoundDividers, by) ==
  LET section == validSections[i]
      startAngle == PercentToDegrees(StartValue(validSections, i))
      arcAngle == getArcAngle(section.percentage)
  IN IF LtV(arcAngle, MinVisibleArc) \/ ~shouldShowRoundDividers THEN <<>>
     ELSE << [percentage |-> section.percentage, color |-> section.color,
              startAngle |-> startAngle, arcAngle |-> arcAngle, by |-> by] >>

RECURSIVE Flatten(_)
Flatten(ss) == IF ss = <<>> THEN <<>> ELSE Head(ss) \o Flatten(Tail(ss))

IsElement(e) == e # Null

\* Sections: the value returned, and the entries pushed onto paintedSections
Sections(dims, sections, shouldShowRoundDividers, strokeCapForLargeBands, by) ==
  LET validSections == ValidSections(sections)
  IN IF Len(sections) = 0 \/ Len(validSections) = 0
     THEN [out |-> Null, pushed |-> <<>>]
     ELSE [out |-> [kind |-> "array",
                    items |-> SelectSeq(
                       [i \in 1..Len(validSections) |->
                          SectionArc(validSections, i, dims, strokeCapForLargeBands)],
                       IsElement)],
           pushed |-> Flatten([i \in 1..Len(validSections) |->
                          SectionPush(validSections, i, shouldShowRoundDividers, by)])]

DividerOffsetBase == 6
DividerRepeatExtra == 2

\* the guard of RoundDividers, satisfied by a single painted section
DividersActiveForOne(paintedSections, visible, dividerSize) ==
  Len(paintedSections) > 0 /\ visible /\ GtV(dividerSize, Whole(0))

\* the guard of RoundDividers
DividersActive(paintedSections, visible, dividerSize) ==
  Len(paintedSections) > 1 /\ visible /\ GtV(dividerSize, Whole(0))

\* Array(n) raises a RangeError unless n is a whole number in 0 .. 2^32 - 1
\* (the upper limit lies beyond the finite numbers of this model)
IsArrayLength(n) ==
  /\ n.k = "num"
  /\ n.v >= 0
  /\ n.v % Unit = 0

\* the two arcs RoundDividers draws for one section and one i
DividerPair(dims, section, index, i, backgroundColor) ==
  LET dividerSize == dims.dividerSize
      dividerOffSet == AddV(TimesV(OrElse(dividerSize, Whole(0)), 2), Whole(DividerOffsetBase))
      base == AddV(section.startAngle, section.arcAngle)
      bgStart == SubV(AddV(AddV(base, dividerSize), Whole(i)), dividerOffSet)
      fgStart == SubV(AddV(SubV(base, dividerSize), Whole(i)), dividerOffSet)
  IN << [kind |-> "ArcShape", key |-> <<index, "bg", i>>, color |-> backgroundColor,
         startAngle |-> bgStart, arcAngle |-> Whole(1), strokeCap |-> "butt",
         rendered |-> ArcShape(dims, backgroundColor, "butt", bgStart, Whole(1), TRUE)],
        [kind |-> "ArcShape", key |-> <<index, "fg", i>>, color |-> section.color,
         startAngle |-> fgStart, arcAngle |-> Whole(1), strokeCap |-> "butt",
         rendered |-> ArcShape(dims, section.color, "butt", fgStart, Whole(1), TRUE)] >>

SectionIsDrawable(section) ==
  ~(section.color = "" \/ isNaN(section.startAngle) \/ isNaN(section.arcAngle))

RoundDividers(dims, paintedSections, backgroundColor, visible) ==
  LET dividerSize == dims.dividerSize
      count == AddV(dividerSize, Whole(DividerRepeatExtra))
      n == count.v \div Unit
  IN IF ~DividersActive(paintedSections, visible, dividerSize) THEN Null
     ELSE IF \E k \in 1..Len(paintedSections) :
                SectionIsDrawable(paintedSections[k]) /\ ~IsArrayLength(count)
     THEN [kind |-> "throw"]
     ELSE [kind |-> "fragment",
           children |-> Flatten([k \in 1..Len(paintedSections) |->
              IF ~SectionIsDrawable(paintedSections[k]) THEN <<>>
              ELSE Flatten([j \in 1..n |->
                     DividerPair(dims, paintedSections[k], k - 1, j - 1,
                                 backgroundColor)])])]

CleanUpWidthLimit == 100

\* the guard of CleanUpCircles
CleanUpActive(dims, visible) ==
  ~(\/ GeV(dims.width, Whole(CleanUpWidthLimit))
    \/ ~visible
    \/ ~Truthy(dims.radius)
    \/ ~Truthy(dims.innerRadius))

CleanUpCircles(dims, backgroundColor, visible) ==
  IF ~CleanUpActive(dims, visible) THEN Null
  ELSE LET innerPath == describeArc(dims.radius, dims.radius,
                          MathMax(SubV(dims.innerRadius, OverV(dims.width, 2)), Whole(0)),
                          Whole(0), Whole(FullCircle))
           outerPath == describeArc(dims.radius, dims.radius,
                          AddV(dims.radius, OverV(dims.width, 2)),
                          Whole(0), Whole(FullCircle))
       IN [kind |-> "fragment",
           children |-> << [kind |-> "Path", d |-> innerPath,
                            stroke |-> backgroundColor, strokeWidth |-> dims.width],
                           [kind |-> "Path", d |-> outerPath,
                            stroke |-> backgroundColor, strokeWidth |-> dims.width] >>]

MinRadius == 10
DefaultRadius == 50

\* Pie.defaultProps: a prop that is undefined takes its default
WithDefaults(p) ==
  [p EXCEPT !.dividerSize = IF @ = Undefined THEN Whole(0) ELSE @,
            !.innerRadius = IF @ = Undefined THEN Whole(0) ELSE @,
            !.strokeCap = IF @ = "" THEN "butt" ELSE @]

\* the Dimensions that Pie derives from its props
Dimensions(p) ==
  LET validRadius == MathMax(OrElse(p.radius, Whole(DefaultRadius)), Whole(MinRadius))
      validInnerRadius == MathMax(OrElse(p.innerRadius, Whole(0)), Whole(0))
      validDividerSize == MathMax(OrElse(p.dividerSize, Whole(0)), Whole(0))
      finalInnerRadius == MathMin(validInnerRadius, SubV(validRadius, Whole(1)))
  IN [radius |-> validRadius, innerRadius |-> finalInnerRadius,
      width |-> SubV(validRadius, finalInnerRadius),
      dividerSize |-> validDividerSize]

strokeCapForLargeBands(p) == IF p.strokeCap = "round" THEN "round" ELSE "butt"
shouldShowRoundDividers(p) == p.strokeCap = "round"

\* ------------------------------------------------------------------------
\* Inputs
\* ------------------------------------------------------------------------

\* longest sections list tried
MaxSections == 2
\* number of Pie instances that render side by side
NumRenders == 2

Renders == 1..NumRenders

Section(percentage, color) == [nul |-> FALSE, percentage |-> percentage, color |-> color]
NullSection == [nul |-> TRUE, percentage |-> Undefined, color |-> ""]

SectionInputs ==
  { Section(Whole(60), "red"), Section(Whole(50), "blue"),
    Section(Milli(20), "green"), Section(Milli(500), "gold"),
    Section(Whole(-5), "red"), Section(PosInf, "grey"),
    Section(Str, "red"), Section(NaN, ""), Section(Whole(30), ""),
    NullSection }

SeqsUpTo(S, n) == UNION { [1..m -> S] : m \in 0..n }

RadiusInputs == { Undefined, NaN, Whole(0), Whole(-5), Whole(50), Whole(200),
                  Milli(10500), PosInf }
InnerRadiusInputs == { Undefined, NaN, Whole(-3), Whole(20), Whole(60), PosInf }
DividerSizeInputs == { Undefined, NaN, Whole(-1), Whole(2), Milli(1500) }
StrokeCapInputs == { "round", "butt", "" }

Props(sections, radius, innerRadius, strokeCap, dividerSize) ==
  [sections |-> sections, radius |-> radius, innerRadius |-> innerRadius,
   strokeCap |-> strokeCap, dividerSize |-> dividerSize,
   backgroundColor |-> "#fff"]

\* every radius and innerRadius, with a few sections lists
GeometryProps ==
  { Props(ss, ra, ir, sc, ds) :
      ss \in { <<>>, << Section(Whole(60), "red") >>,
               << Section(Whole(60), "red"), Section(Whole(50), "blue") >> },
      ra \in RadiusInputs, ir \in InnerRadiusInputs,
      sc \in { "round", "butt" }, ds \in { Undefined, Whole(2) } }

\* every sections list, strokeCap and dividerSize, in two geometries
SectionProps ==
  { Props(ss, Whole(50), ir, sc, ds) :
      ss \in SeqsUpTo(SectionInputs, MaxSections),
      ir \in { Undefined, Whole(20) },
      sc \in StrokeCapInputs, ds \in DividerSizeInputs }

AllProps == GeometryProps \cup SectionProps

\* the props of the renders that run side by side
ConcProps ==
  { Props(ss, Whole(50), Whole(20), sc, Whole(2)) :
      ss \in { << Section(Whole(60), "red") >>,
               << Section(Whole(50), "blue"), Section(Whole(30), "green") >>,
               << Section(Milli(20), "green"), Section(Whole(60), "red"),
                  Section(Whole(-5), "red") >> },
      sc \in { "round", "butt" } }

ArcCenterInputs == { Whole(50), NaN, PosInf }
ArcRadiusInputs == { Whole(40), Undefined, NaN, PosInf }
ArcStartInputs == { Whole(0), Whole(90), NaN, PosInf, NegInf }
ArcAngleInputs == { Whole(-10), Whole(0), Milli(50), Whole(90), Whole(270),
                    Milli(359900), Whole(360), NaN, PosInf, NegInf }

\* ------------------------------------------------------------------------
\* State machine: each render r runs Pie, then its children in order
\* ------------------------------------------------------------------------

Pending == [kind |-> "pending"]
NoProps == Props(<<>>, Undefined, Undefined, "", Undefined)

\* one array shared by every render
SharedAccumulator(r) == 1

\* the array that the Pie call of render r creates for paintedSections
AccumulatorOf(r) == r

paintedSections(r) == heap[AccumulatorOf(r)]

Init ==
  /\ pc = [r \in Renders |-> "idle"]
  /\ props = [r \in Renders |-> NoProps]
  /\ dimensions = [r \in Renders |-> Dimensions(NoProps)]
  /\ heap = [a \in Renders |-> <<>>]
  /\ bgOut = [r \in Renders |-> Pending]
  /\ sectionsOut = [r \in Renders |-> Pending]
  /\ dividersOut = [r \in Renders |-> Pending]
  /\ cleanupOut = [r \in Renders |-> Pending]
  /\ arcIn = <<>>
  /\ arcOut = Pending

\* Pie is called with props p: a first render, or a re-render
PieRender(r, P) ==
  /\ pc[r] = "idle"
  /\ \E p \in P :
       /\ props' = [props EXCEPT ![r] = WithDefaults(p)]
       /\ dimensions' = [dimensions EXCEPT ![r] = Dimensions(WithDefaults(p))]
  /\ heap' = [heap EXCEPT ![AccumulatorOf(r)] = <<>>]
  /\ bgOut' = [bgOut EXCEPT ![r] = Pending]
  /\ sectionsOut' = [sectionsOut EXCEPT ![r] = Pending]
  /\ dividersOut' = [dividersOut EXCEPT ![r] = Pending]
  /\ cleanupOut' = [cleanupOut EXCEPT ![r] = Pending]
  /\ pc' = [pc EXCEPT ![r] = "Background"]
  /\ UNCHANGED <<arcIn, arcOut>>

BackgroundStep(r) ==
  /\ pc[r] = "Background"
  /\ bgOut' = [bgOut EXCEPT ![r] = Background(dimensions[r], props[r].backgroundColor)]
  /\ pc' = [pc EXCEPT ![r] = "Sections"]
  /\ UNCHANGED <<props, dimensions, heap, sectionsOut, dividersOut, cleanupOut,
                 arcIn, arcOut>>

SectionsStep(r) ==
  /\ pc[r] = "Sections"
  /\ LET res == Sections(dimensions[r], props[r].sections,
                         shouldShowRoundDividers(props[r]),
                         strokeCapForLargeBands(props[r]), r)
     IN /\ sectionsOut' = [sectionsOut EXCEPT ![r] = res.out]
        /\ heap' = [heap EXCEPT ![AccumulatorOf(r)] = @ \o res.pushed]
  /\ pc' = [pc EXCEPT ![r] = "RoundDividers"]
  /\ UNCHANGED <<props, dimensions, bgOut, dividersOut, cleanupOut, arcIn, arcOut>>

\* an exception thrown while rendering ends the render
RoundDividersStep(r) ==
  /\ pc[r] = "RoundDividers"
  /\ LET res == RoundDividers(dimensions[r], paintedSections(r),
                              props[r].backgroundColor,
                              shouldShowRoundDividers(props[r]))
     IN /\ dividersOut' = [dividersOut EXCEPT ![r] = res]
        /\ pc' = [pc EXCEPT ![r] = IF res.kind = "throw" THEN "thrown"
                                   ELSE "CleanUpCircles"]
  /\ UNCHANGED <<props, dimensions, heap, bgOut, sectionsOut, cleanupOut,
                 arcIn, arcOut>>

CleanUpCirclesStep(r) ==
  /\ pc[r] = "CleanUpCircles"
  /\ cleanupOut' = [cleanupOut EXCEPT ![r] =
        CleanUpCircles(dimensions[r], props[r].backgroundColor,
                       shouldShowRoundDividers(props[r]))]
  /\ pc' = [pc EXCEPT ![r] = "done"]
  /\ UNCHANGED <<props, dimensions, heap, bgOut, sectionsOut, dividersOut,
                 arcIn, arcOut>>

\* The render pass of r is over (its output committed, or abandoned after an
\* exception): nothing of it is referenced any more, and Pie may be called
\* again.
Finish(r) ==
  /\ pc[r] \in { "done", "thrown" }
  /\ pc' = [pc EXCEPT ![r] = "idle"]
  /\ props' = [props EXCEPT ![r] = NoProps]
  /\ dimensions' = [dimensions EXCEPT ![r] = Dimensions(NoProps)]
  /\ heap' = [heap EXCEPT ![AccumulatorOf(r)] = <<>>]
  /\ bgOut' = [bgOut EXCEPT ![r] = Pending]
  /\ sectionsOut' = [sectionsOut EXCEPT ![r] = Pending]
  /\ dividersOut' = [dividersOut EXCEPT ![r] = Pending]
  /\ cleanupOut' = [cleanupOut EXCEPT ![r] = Pending]
  /\ UNCHANGED <<arcIn, arcOut>>

\* one Pie on screen, any props
Next ==
  \/ PieRender(1, AllProps)
  \/ Finish(1)
  \/ BackgroundStep(1)
  \/ SectionsStep(1)
  \/ RoundDividersStep(1)
  \/ CleanUpCirclesStep(1)

Spec == Init /\ [][Next]_vars

\* several Pies rendering side by side, their steps interleaved
NextConc ==
  \E r \in Renders :
    \/ PieRender(r, ConcProps)
    \/ Finish(r)
    \/ BackgroundStep(r)
    \/ SectionsStep(r)
    \/ RoundDividersStep(r)
    \/ CleanUpCirclesStep(r)

SpecConc == Init /\ [][NextConc]_vars

\* describeArc on its own, applied to any arguments
DescribeArcCall ==
  /\ arcIn = <<>>
  /\ \E cx \in ArcCenterInputs, cy \in ArcCenterInputs, r \in ArcRadiusInputs,
        startAngle \in ArcStartInputs, arcAngle \in ArcAngleInputs :
       /\ arcIn' = <<cx, cy, r, startAngle, arcAngle>>
       /\ arcOut' = describeArc(cx, cy, r, startAngle, arcAngle)
  /\ UNCHANGED <<pc, props, dimensions, heap, bgOut, sectionsOut, dividersOut,
                 cleanupOut>>

NextArc == DescribeArcCall

SpecArc == Init /\ [][NextArc]_vars

\* ------------------------------------------------------------------------
\* Properties
\* ------------------------------------------------------------------------

IsFinite(x) == x.k = "num"

\* the valid sections of render r, in input order
Valid(r) == ValidSections(props[r].sections)

SectionsRan(r) == pc[r] \in { "RoundDividers", "CleanUpCircles", "done", "thrown" }
DividersRan(r) == pc[r] \in { "CleanUpCircles", "done", "thrown" }

\* the arcs Sections returned in render r
Items(r) == IF sectionsOut[r].kind = "array" THEN sectionsOut[r].items ELSE <<>>

\* 360/100 times the sum of the percentages of the first n sections of vs
RECURSIVE PercentSum(_, _)
PercentSum(vs, n) ==
  IF n = 0 THEN Whole(0) ELSE AddV(PercentSum(vs, n - 1), vs[n].percentage)

CumulativeStart(vs, i) == PercentToDegrees(PercentSum(vs, i - 1))

\* min(percentage / 100 * 360, 360)
Span(section) == MathMin(PercentToDegrees(section.percentage), Whole(360))

\* the indices of the sections of vs that are wide enough to be drawn
Visible(vs) == { i \in 1..Len(vs) : GeV(Span(vs[i]), Milli(100)) }

RECURSIVE SumOfSpans(_, _)
SumOfSpans(items, vs) ==
  IF items = <<>> THEN Whole(0)
  ELSE AddV(Span(vs[Head(items).key + 1]), SumOfSpans(Tail(items), vs))

\* the arcs are those of the sections `drawn`, in order
DrawsExactly(r, drawn) ==
  /\ Len(Items(r)) = Cardinality(drawn)
  /\ { Items(r)[j].key + 1 : j \in 1..Len(Items(r)) } = drawn
  /\ \A j \in 1..Len(Items(r)) : \A k \in 1..Len(Items(r)) :
        j < k => Items(r)[j].key < Items(r)[k].key

Unshrunk(e, vs) ==
  /\ e.startAngle = CumulativeStart(vs, e.key + 1)
  /\ e.arcAngle = Span(vs[e.key + 1])

ShrunkBy(e, vs, d) ==
  /\ e.startAngle = AddV(CumulativeStart(vs, e.key + 1), d)
  /\ e.arcAngle = MathMax(SubV(Span(vs[e.key + 1]), d), Milli(100))

\* C1: after normalization radius >= 10 and 0 <= innerRadius < radius, so
\* that width = radius - innerRadius >= 1, whatever radius and innerRadius
\* were passed.
C1_RadiiNormalized ==
  \A r \in Renders :
    pc[r] # "idle" =>
      /\ GeV(dimensions[r].radius, Whole(10))
      /\ GeV(dimensions[r].innerRadius, Whole(0))
      /\ LtV(dimensions[r].innerRadius, dimensions[r].radius)
      /\ GeV(dimensions[r].width, Whole(1))

\* C2: the spans (before any divider shrink) of the sections that Sections
\* rendered add up to at most 360 degrees.
C2_SpansAtMostFullCircle ==
  \A r \in Renders :
    SectionsRan(r) => LeV(SumOfSpans(Items(r), Valid(r)), Whole(360))

\* C3: no step of a render throws.
C3_NoStepThrows ==
  \A r \in Renders : pc[r] # "thrown" /\ dividersOut[r].kind # "throw"

\* C4: describeArc returns 'M 0 0' whenever one of its arguments is not a
\* finite number or arcAngle <= 0.
C4_PlaceholderForNonFinite ==
  arcIn # <<>> =>
    ( (\/ \E i \in 1..5 : ~IsFinite(arcIn[i])
       \/ LeV(arcIn[5], Whole(0)))
      => arcOut = PlaceholderPath )

\* C5: CleanUpCircles draws only in renders where the divider renderer is
\* active (strokeCap round, more than one valid section, dividerSize > 0)
\* and width < 100; where RoundDividers emits nothing, so does it.
C5_CleanUpOnlyWithDividers ==
  \A r \in Renders :
    pc[r] = "done" /\ cleanupOut[r] # Null =>
      /\ props[r].strokeCap = "round"
      /\ Len(Valid(r)) > 1
      /\ GtV(dimensions[r].dividerSize, Whole(0))
      /\ LtV(dimensions[r].width, Whole(100))
      /\ dividersOut[r] # Null

\* C6 as stated: with a strokeCap other than "round", for any dividerSize,
\* every section drawn starts at 360/100 times the sum of the percentages of
\* the valid sections before it and spans min(percentage/100*360, 360).
C6_FlatCapsNeverShrunk ==
  \A r \in Renders :
    SectionsRan(r) /\ props[r].strokeCap # "round" =>
      \A j \in 1..Len(Items(r)) : Unshrunk(Items(r)[j], Valid(r))

\* C6 amended: with a strokeCap other than "round", the valid sections whose
\* span is at least 0.1 degree are drawn, in order; unshrunk when dividerSize
\* is not positive or there is one valid section, and otherwise shifted by
\* dividerSize and shrunk by it (to no less than 0.1 degree).
C6_FlatCapsShrunkOnlyByDivider ==
  \A r \in Renders :
    SectionsRan(r) /\ props[r].strokeCap # "round" =>
      /\ DrawsExactly(r, Visible(Valid(r)))
      /\ \A j \in 1..Len(Items(r)) :
           IF Len(Valid(r)) > 1 /\ GtV(dimensions[r].dividerSize, Whole(0))
           THEN ShrunkBy(Items(r)[j], Valid(r), dimensions[r].dividerSize)
           ELSE Unshrunk(Items(r)[j], Valid(r))

C6_Witness ==
  /\ pc[1] = "done"
  /\ props[1].strokeCap = "butt"
  /\ dimensions[1].dividerSize = Whole(2)
  /\ Len(Valid(1)) = 2
  /\ Len(Items(1)) = 2
  /\ Items(1)[2].startAngle = Whole(218)

\* C7 as stated: with strokeCap "round" and dividerSize d, every drawn
\* section spans its arc span minus d and starts at its cumulative start
\* plus d.
C7_RoundAlwaysShrunk ==
  \A r \in Renders :
    SectionsRan(r) /\ props[r].strokeCap = "round" =>
      \A j \in 1..Len(Items(r)) :
        LET e == Items(r)[j]
            d == dimensions[r].dividerSize
        IN /\ e.startAngle = AddV(CumulativeStart(Valid(r), e.key + 1), d)
           /\ e.arcAngle = SubV(Span(Valid(r)[e.key + 1]), d)

\* C7 amended: with strokeCap "round", dividerSize d > 0 and more than one
\* valid section, every drawn section starts at its cumulative start plus d
\* and spans max(arc span - d, 0.1); with one valid section, or d = 0, it is
\* drawn unshrunk.
C7_RoundShrunkWhenDivided ==
  \A r \in Renders :
    SectionsRan(r) /\ props[r].strokeCap = "round" =>
      \A j \in 1..Len(Items(r)) :
        IF Len(Valid(r)) > 1 /\ GtV(dimensions[r].dividerSize, Whole(0))
        THEN ShrunkBy(Items(r)[j], Valid(r), dimensions[r].dividerSize)
        ELSE Unshrunk(Items(r)[j], Valid(r))

C7_Witness ==
  /\ pc[1] = "done"
  /\ props[1].strokeCap = "round"
  /\ dimensions[1].dividerSize = Whole(2)
  /\ Len(Items(1)) = 2
  /\ Items(1)[1].startAngle = Whole(2)
  /\ Items(1)[1].arcAngle = Whole(214)
  /\ Items(1)[2].arcAngle = Milli(100)

\* C8: RoundDividers emits arcs only when strokeCap is round, more than one
\* valid section exists and dividerSize > 0.
C8_DividersOnlyWhenRequested ==
  \A r \in Renders :
    DividersRan(r) /\ dividersOut[r].kind = "fragment" =>
      /\ props[r].strokeCap = "round"
      /\ Len(Valid(r)) > 1
      /\ GtV(dimensions[r].dividerSize, Whole(0))

C8_Witness ==
  /\ pc[1] = "done"
  /\ dividersOut[1].kind = "fragment"
  /\ Len(dividersOut[1].children) = 16

\* the entry of paintedSections for the i-th valid section of render r
Painted(r, i) ==
  [percentage |-> Valid(r)[i].percentage, color |-> Valid(r)[i].color,
   startAngle |-> CumulativeStart(Valid(r), i),
   arcAngle |-> Span(Valid(r)[i]), by |-> r]

\* the members of S, in increasing order
RECURSIVE Ascending(_)
Ascending(S) ==
  IF S = {} THEN <<>>
  ELSE LET m == CHOOSE x \in S : \A y \in S : x <= y
       IN <<m>> \o Ascending(S \ {m})

\* C9 as stated: with strokeCap round, between Sections and RoundDividers
\* paintedSections holds one entry per valid section, in order, with its
\* pre-shrink angles; with any other strokeCap it is empty.
C9_OneEntryPerValidSection ==
  \A r \in Renders :
    pc[r] = "RoundDividers" =>
      IF props[r].strokeCap = "round"
      THEN /\ Len(paintedSections(r)) = Len(Valid(r))
           /\ \A i \in 1..Len(Valid(r)) : paintedSections(r)[i] = Painted(r, i)
      ELSE paintedSections(r) = <<>>

\* C9 amended: with strokeCap round, between Sections and RoundDividers
\* paintedSections holds one entry per valid section whose span is at least
\* 0.1 degree, in order, with its pre-shrink angles; with any other strokeCap
\* it is empty.
C9_OneEntryPerVisibleSection ==
  \A r \in Renders :
    pc[r] = "RoundDividers" =>
      IF props[r].strokeCap = "round"
      THEN LET drawn == Ascending(Visible(Valid(r)))
           IN /\ Len(paintedSections(r)) = Len(drawn)
              /\ \A j \in 1..Len(drawn) :
                   paintedSections(r)[j] = Painted(r, drawn[j])
      ELSE paintedSections(r) = <<>>

C9_Witness ==
  /\ pc[1] = "RoundDividers"
  /\ props[1].strokeCap = "round"
  /\ Len(Valid(1)) = 2
  /\ Len(paintedSections(1)) = 1
  /\ paintedSections(1)[1].startAngle = Milli(72)

\* C10: the accumulator of a render is empty until its Sections step runs,
\* and never holds an entry pushed by another render.
C10_AccumulatorPerRender ==
  \A r \in Renders :
    /\ pc[r] \in { "Background", "Sections" } => paintedSections(r) = <<>>
    /\ \A i \in 1..Len(paintedSections(r)) : paintedSections(r)[i].by = r
    /\ pc[r] = "RoundDividers" => Len(paintedSections(r)) <= Len(Valid(r))

C10_Witness ==
  /\ pc[1] = "RoundDividers"
  /\ pc[2] = "RoundDividers"
  /\ Len(paintedSections(1)) = 2
  /\ Len(paintedSections(2)) = 1

====
